---- MODULE Spec2Model ----
(***************************************************************************)
(* The disk cache of package disk (src/unnamed/part_001): Get, Set and the *)
(* expiry sweeper, modelled one system call per step over a small file     *)
(* system.  A key is a string, a sequence of characters.  A file name is   *)
(* a record of the parts fmt.Sprintf puts together: the directory, the     *)
(* prefix, the hex digest and the extensions added to it.  SHA-256 is      *)
(* taken to be injective on the keys considered: the digest of a key is    *)
(* the symbolic value [sha256 |-> key].  A file is                         *)
(* NoFile or File(content); a content is a sequence.  An advisory lock     *)
(* (flock) belongs to the inode that was open when it was taken: a rename  *)
(* over a name, or a remove of it, leaves the locks taken on the old inode *)
(* behind (cur = FALSE).                                                   *)
(* flock.TryLock (an external library) is one step: open the path with     *)
(* O_CREATE, then a non-blocking exclusive flock.  os.WriteFile and        *)
(* os.ReadFile are one step each.  Times are integers.                     *)
(***************************************************************************)
EXTENDS Naturals, Sequences, FiniteSets, TLC

\* Bounds of the model.
NumKeys == 2
MaxKeyLen == 3
NumWriters == 2
NumSweepers == 2
NumBytes == 2
MaxTime == 1
MaxTTL == 1
MaxFaults == 1
MaxTicks == 3

\* The strings GenKeyFilename is applied to, and among them the keys of the
\* entries the calls below work on: "a", "a~", "a~a", ...  '/' is the path
\* separator of the file system.
Chars == {"a", "~", "/"}
KeyStrings == UNION {[1..n -> Chars] : n \in 0..MaxKeyLen}
Key(i) == [j \in 1..i |-> IF j = 2 THEN "~" ELSE "a"]
Keys == {Key(i) : i \in 1..NumKeys}
Writers == 1..NumWriters
Sweepers == 1..NumSweepers
Payloads == {<<b>> : b \in 1..NumBytes}
Durations == 0..MaxTTL

NoFile == <<>>
File(content) == <<content>>
Content(file) == file[1]

\* part_001:30.
cacheDir == "/tmp/sippycache"
\* part_001:41-42.  hex.EncodeToString(sha256.Sum256([]byte(input)))
Sum256Hex(input) == [sha256 |-> input]
\* A prefix taken up to the last '~' of input.
ExtractPrefixLast(input) ==
  IF \E i \in 1..Len(input) : input[i] = "~"
  THEN LET idx == CHOOSE i \in 1..Len(input) :
                    /\ input[i] = "~"
                    /\ \A j \in (i + 1)..Len(input) : input[j] # "~"
       IN Append(SubSeq(input, 1, idx - 1), "-")
  ELSE <<>>
\* part_001:48-53.  The part of input before the first '~', and "-".
ExtractPrefix(input) ==
  IF \E i \in 1..Len(input) : input[i] = "~"
  THEN LET idx == CHOOSE i \in 1..Len(input) :
                    /\ input[i] = "~"
                    /\ \A j \in 1..(i - 1) : input[j] # "~"
       IN Append(SubSeq(input, 1, idx - 1), "-")
  ELSE <<>>
\* A file name made of the prefix and the digest of the prefix.
GenKeyFilenameOfPrefix(input) ==
  [dir |-> cacheDir, prefix |-> ExtractPrefix(input),
   hex |-> Sum256Hex(ExtractPrefix(input)), ext |-> <<".json">>]
\* part_001:40-44.  fmt.Sprintf("%s/%s%s.json", c.cacheDir, ExtractPrefix(input), hexStr)
GenKeyFilename(input) ==
  [dir |-> cacheDir, prefix |-> ExtractPrefix(input), hex |-> Sum256Hex(input),
   ext |-> <<".json">>]
\* part_001:107.  filename without its last len(".json") characters, plus "-metadata.json"
MetadataName(filename) ==
  [filename EXCEPT !.ext = Append(SubSeq(@, 1, Len(@) - 1), "-metadata.json")]
\* part_001:126,131.  name + ".tmp"
TempName(name) == [name EXCEPT !.ext = Append(@, ".tmp")]
\* part_001:197-198.  cacheFile + ".lock"
LockName(name) == [name EXCEPT !.ext = Append(@, ".lock")]
\* The path "<dir>/<prefix><hex><ext>" names a file directly in dir: what
\* follows "<dir>/" is one path component.  The digest and the extensions
\* hold no separator; the prefix is a part of the key as it came.
InDir(name, dir) ==
  /\ name.dir = dir
  /\ \A i \in 1..Len(name.prefix) : name.prefix[i] # "/"
\* The key a file name was made from (read by the history variables only).
KeyOfName(name) == name.hex.sha256

KeyPaths(k) ==
  LET f == GenKeyFilename(k)
      m == MetadataName(f)
  IN {f, m, TempName(f), TempName(m), LockName(f)}
Paths == UNION {KeyPaths(k) : k \in Keys}

\* part_001:75-80 with json.MarshalIndent (120) and json.Unmarshal (183): the
\* file holds the four fields in order; anything else does not parse.
Marshal(md) == <<md.key, md.filename, md.set, md.expire>>
Unmarshal(content) ==
  IF Len(content) = 4
  THEN [ok |-> TRUE,
        md |-> [key |-> content[1], filename |-> content[2],
                set |-> content[3], expire |-> content[4]]]
  ELSE [ok |-> FALSE,
        md |-> [key |-> <<>>, filename |-> <<>>, set |-> 0, expire |-> 0]]

VARIABLES
  now,        \* the clock (time.Now)
  faults,     \* the faults of the file system so far: failed calls, corrupted files
  dirExists,  \* whether c.cacheDir exists
  fs,         \* the files of c.cacheDir: name -> NoFile or File(content)
  flocks,     \* the flocks held: [who, path, cur]
  wpc, wkey, wcontent, wbefore, wduration, wret,   \* a Set call: position, arguments, locals, result
  gpc, gkey, gret,                                 \* a Get call
  spc, sfiles, smeta, sdefer,                      \* a cleanup call: position, files left, metadata read, deferred unlocks
  tickerC,    \* per sweeper: the ticks waiting in the channel of its ticker (ticker.C)
  kinput,     \* the string of the last call of GenKeyFilename
  kpath,      \* the path it returned, or a path built from it: metadata, temporary, lock
  rstore,     \* the Redis server: name -> NoEntry or Entry(value, set time, expiration)
  rret,       \* the last call of the Redis cache and what it returned
  \* history variables (read by the properties only)
  wchanged,   \* this Set call has changed the key's data or metadata file
  gstart,     \* the data file when this Get call started
  gsets,      \* the contents of the Set calls on its key that overlapped this Get call
  iso,        \* a Set that runs with no step of any other actor, then a Get
  last,       \* per key, since the last Set on it started: the Set that completed its
              \* two renames last (done), and whether a sweeper removed a file of the key
  slocked,    \* per sweeper: a Set held its lock on the entry when the sweeper found it expired
  sdue,       \* per sweeper: the keys whose entry had expired when its tick started
  sskipped,   \* per sweeper: the metadata files its tick has skipped as unparsable
  sorder,     \* per sweeper and key: what its tick in progress has done to the entry, in order
  sheld,      \* the keys whose entry a tick has skipped because its lock was held
  swept,      \* the keys for which such a tick has completed
  rset,       \* per key: the last Set of the Redis cache on it
  tfired,     \* per sweeper: the intervals of its ticker that have elapsed
  tstarted    \* per sweeper: the calls of cleanup its loop has made

wvars == <<wpc, wkey, wcontent, wbefore, wduration, wret>>
gvars == <<gpc, gkey, gret>>
svars == <<spc, sfiles, smeta, sdefer>>
hvars == <<wchanged, gstart, gsets, iso, last, slocked, sdue, sskipped, sorder, sheld, swept>>
rvars == <<rstore, rret, rset>>
tvars == <<tickerC, tfired, tstarted>>
kvars == <<kinput, kpath>>
dvars == <<faults, dirExists, fs, flocks, wvars, gvars, svars, hvars>>
vars == <<now, dvars, rvars, tvars, kvars>>

NoMeta == [key |-> <<>>, filename |-> <<>>, set |-> 0, expire |-> 0]
NoResult == [err |-> "", data |-> <<>>]
NoIso == [st |-> "none", w |-> 0, key |-> <<>>, content |-> <<>>]
NoLast == [done |-> FALSE, content |-> <<>>, expire |-> 0, removed |-> FALSE]

\* package redis, disk.go:85
prefix == <<"_SIPPY_">>
\* The names the Redis server may hold: those of the cache, and the bare keys.
RemoteNames == Keys \cup {prefix \o k : k \in Keys}
NoEntry == <<>>
Entry(value, set, expiration) == <<value, set, expiration>>
NoCall == [op |-> "", key |-> <<>>, at |-> 0, err |-> "", data |-> <<>>]
\* The server keeps an entry stored with expiration zero for ever (the SET
\* command then carries no expiry), and any other until its expiration elapsed.
Live(e) == e # NoEntry /\ (e[3] = 0 \/ now < e[2] + e[3])

NoOrder == [k \in Keys |-> <<>>]

SetWho(w) == <<"Set", w>>
CleanupWho(s) == <<"cleanup", s>>

\* flock: a non-blocking exclusive lock is refused when another open file of
\* the inode now at path holds one.
LockedElsewhere(path) == \E l \in flocks : l.path = path /\ l.cur
\* The name path was given another inode, or none.
Relinked(fl, path) ==
  {IF l.path = path THEN [l EXCEPT !.cur = FALSE] ELSE l : l \in fl}
Holds(who, path) == \E l \in flocks : l.who = who /\ l.path = path

WriterActive(w) == wpc[w] # "idle"

Init ==
  /\ now = 0
  /\ faults = 0
  /\ dirExists = FALSE
  /\ fs = [p \in Paths |-> NoFile]
  /\ flocks = {}
  /\ wpc = [w \in Writers |-> "idle"]
  /\ wkey = [w \in Writers |-> <<>>]
  /\ wcontent = [w \in Writers |-> <<>>]
  /\ wbefore = [w \in Writers |-> 0]
  /\ wduration = [w \in Writers |-> 0]
  /\ wret = [w \in Writers |-> ""]
  /\ gpc = "idle"
  /\ gkey = <<>>
  /\ gret = NoResult
  /\ spc = [s \in Sweepers |-> "idle"]
  /\ sfiles = [s \in Sweepers |-> <<>>]
  /\ smeta = [s \in Sweepers |-> NoMeta]
  /\ sdefer = [s \in Sweepers |-> <<>>]
  /\ wchanged = [w \in Writers |-> FALSE]
  /\ gstart = NoFile
  /\ gsets = {}
  /\ iso = NoIso
  /\ last = [k \in Keys |-> NoLast]
  /\ slocked = [s \in Sweepers |-> FALSE]
  /\ sdue = [s \in Sweepers |-> {}]
  /\ sskipped = [s \in Sweepers |-> {}]
  /\ sorder = [s \in Sweepers |-> NoOrder]
  /\ sheld = {}
  /\ swept = {}
  /\ rstore = [name \in RemoteNames |-> NoEntry]
  /\ rret = NoCall
  /\ rset = [k \in Keys |-> NoEntry]
  /\ tickerC = [s \in Sweepers |-> 0]
  /\ tfired = [s \in Sweepers |-> 0]
  /\ tstarted = [s \in Sweepers |-> 0]
  /\ kinput = <<>>
  /\ kpath = GenKeyFilename(<<>>)

----
\* History bookkeeping shared by the actions.

\* A file system call fails on a fault at most MaxFaults times.
Faulty(fault) ==
  /\ fault => faults < MaxFaults
  /\ faults' = IF fault THEN faults + 1 ELSE faults
\* A step of Set call w keeps an isolated run of w going, and ends any other.
IsoSet(w) == IF iso.st = "set" /\ iso.w = w THEN iso ELSE NoIso
\* A step of Get keeps an isolated Set-then-Get going.
IsoGet == IF iso.st = "get" THEN iso ELSE NoIso
\* A sweeper removed a file of key k: the entry of k was reclaimed.
Reclaimed(l, k) == [l EXCEPT ![k].removed = TRUE]

----
\* Set, part_001:82-146.

\* 83-87: before := time.Now(); filename := c.GenKeyFilename(key)
SetStart(w, key, content, duration) ==
  /\ wpc[w] = "idle"
  /\ wpc' = [wpc EXCEPT ![w] = "stat"]
  /\ wkey' = [wkey EXCEPT ![w] = key]
  /\ wcontent' = [wcontent EXCEPT ![w] = content]
  /\ wbefore' = [wbefore EXCEPT ![w] = now]
  /\ wduration' = [wduration EXCEPT ![w] = duration]
  /\ wret' = [wret EXCEPT ![w] = ""]
  /\ wchanged' = [wchanged EXCEPT ![w] = FALSE]
  /\ gsets' = IF gpc # "idle" /\ gkey = key THEN gsets \cup {content} ELSE gsets
  /\ iso' = [st |-> "set", w |-> w, key |-> key, content |-> content]
  /\ last' = [last EXCEPT ![key] = NoLast]
  /\ sdue' = [s \in Sweepers |-> sdue[s] \ {key}]
  /\ swept' = swept \ {key}
  /\ UNCHANGED <<now, faults, dirExists, fs, flocks, gvars, svars, gstart, slocked>>

\* What every later step of a Set call leaves alone.
SetFrame(w) ==
  /\ iso' = IsoSet(w)
  /\ UNCHANGED <<now, wkey, wcontent, wbefore, wduration, gvars, svars,
                 gstart, gsets, slocked, sdue, swept>>

\* 90: os.Stat(c.cacheDir)
SetStatDir(w) ==
  /\ wpc[w] = "stat"
  /\ wpc' = [wpc EXCEPT ![w] = IF dirExists THEN "lock" ELSE "mkdir"]
  /\ SetFrame(w)
  /\ UNCHANGED <<dirExists, fs, flocks, wret, wchanged, last>>

\* A Set that creates the directory with os.Mkdir, which fails on a directory
\* that exists.
SetMkdirOnce(w, fault) ==
  /\ wpc[w] = "mkdir"
  /\ fault => ~dirExists
  /\ IF fault \/ dirExists
     THEN /\ wpc' = [wpc EXCEPT ![w] = "ret"]
          /\ wret' = [wret EXCEPT ![w] = "mkdir"]
          /\ UNCHANGED dirExists
     ELSE /\ dirExists' = TRUE
          /\ wpc' = [wpc EXCEPT ![w] = "lock"]
          /\ UNCHANGED wret
  /\ SetFrame(w)
  /\ UNCHANGED <<fs, flocks, wchanged, last>>

\* 91-95: os.MkdirAll(c.cacheDir), which succeeds on a directory that exists
SetMkdir(w, fault) ==
  /\ wpc[w] = "mkdir"
  /\ fault => ~dirExists
  /\ IF fault
     THEN /\ wpc' = [wpc EXCEPT ![w] = "ret"]
          /\ wret' = [wret EXCEPT ![w] = "mkdir"]
          /\ UNCHANGED dirExists
     ELSE /\ dirExists' = TRUE
          /\ wpc' = [wpc EXCEPT ![w] = "lock"]
          /\ UNCHANGED wret
  /\ SetFrame(w)
  /\ UNCHANGED <<fs, flocks, wchanged, last>>

\* A Set that takes its lock on one file for all keys.
SetTryLockOneFile(w, fault) ==
  /\ wpc[w] = "lock"
  /\ LET f == GenKeyFilename(Key(1)) IN
       \/ \* 112-114: the file cannot be opened, err # nil
          /\ fault
          /\ wpc' = [wpc EXCEPT ![w] = "ret"]
          /\ wret' = [wret EXCEPT ![w] = "lockerr"]
          /\ UNCHANGED <<fs, flocks, wchanged>>
       \/ \* 115-117: held elsewhere, locked = false
          /\ ~fault
          /\ LockedElsewhere(f)
          /\ wpc' = [wpc EXCEPT ![w] = "ret"]
          /\ wret' = [wret EXCEPT ![w] = "locked"]
          /\ UNCHANGED <<fs, flocks, wchanged>>
       \/ \* acquired; the open creates filename, empty, when it is missing
          /\ ~fault
          /\ ~LockedElsewhere(f)
          /\ LET nfs == IF fs[f] = NoFile THEN [fs EXCEPT ![f] = File(<<>>)] ELSE fs IN
               /\ fs' = nfs
               /\ wchanged' = [wchanged EXCEPT ![w] = wchanged[w] \/ nfs[f] # fs[f]]
          /\ flocks' = flocks \cup {[who |-> SetWho(w), path |-> f, cur |-> TRUE]}
          /\ wpc' = [wpc EXCEPT ![w] = "wtmp"]
          /\ UNCHANGED wret
  /\ SetFrame(w)
  /\ UNCHANGED <<dirExists, last>>

\* A Set that goes on to write when the lock is held elsewhere.
SetTryLockUnchecked(w, fault) ==
  /\ wpc[w] = "lock"
  /\ ~fault
  /\ LET f == GenKeyFilename(wkey[w]) IN
       /\ fs' = [fs EXCEPT ![f] = IF @ = NoFile THEN File(<<>>) ELSE @]
       /\ wchanged' = [wchanged EXCEPT ![w] = wchanged[w] \/ fs'[f] # fs[f]]
       /\ flocks' = IF LockedElsewhere(f) THEN flocks
                    ELSE flocks \cup {[who |-> SetWho(w), path |-> f, cur |-> TRUE]}
  /\ wpc' = [wpc EXCEPT ![w] = "wtmp"]
  /\ SetFrame(w)
  /\ UNCHANGED <<dirExists, last, wret>>

\* 110-118: flock.New(filename).TryLock(); defer lock.Unlock()
SetTryLock(w, fault) ==
  /\ wpc[w] = "lock"
  /\ LET f == GenKeyFilename(wkey[w]) IN
       \/ \* 112-114: the file cannot be opened, err # nil
          /\ fault
          /\ wpc' = [wpc EXCEPT ![w] = "ret"]
          /\ wret' = [wret EXCEPT ![w] = "lockerr"]
          /\ UNCHANGED <<fs, flocks, wchanged>>
       \/ \* 115-117: held elsewhere, locked = false
          /\ ~fault
          /\ LockedElsewhere(f)
          /\ wpc' = [wpc EXCEPT ![w] = "ret"]
          /\ wret' = [wret EXCEPT ![w] = "locked"]
          /\ UNCHANGED <<fs, flocks, wchanged>>
       \/ \* acquired; the open creates filename, empty, when it is missing
          /\ ~fault
          /\ ~LockedElsewhere(f)
          /\ LET nfs == IF fs[f] = NoFile THEN [fs EXCEPT ![f] = File(<<>>)] ELSE fs IN
               /\ fs' = nfs
               /\ wchanged' = [wchanged EXCEPT ![w] = wchanged[w] \/ nfs[f] # fs[f]]
          /\ flocks' = flocks \cup {[who |-> SetWho(w), path |-> f, cur |-> TRUE]}
          /\ wpc' = [wpc EXCEPT ![w] = "wtmp"]
          /\ UNCHANGED wret
  /\ SetFrame(w)
  /\ UNCHANGED <<dirExists, last>>

\* os.WriteFile(name, content): on a fault the file is untouched or left empty
WriteFile(w, name, content, next, errname, fault) ==
  IF fault
  THEN /\ \/ UNCHANGED fs
          \/ fs' = [fs EXCEPT ![name] = File(<<>>)]
       /\ wpc' = [wpc EXCEPT ![w] = "ret"]
       /\ wret' = [wret EXCEPT ![w] = errname]
  ELSE /\ fs' = [fs EXCEPT ![name] = File(content)]
       /\ wpc' = [wpc EXCEPT ![w] = next]
       /\ UNCHANGED wret

\* A Set that starts to write the data file in place: the file is truncated
\* while the payload is on its way.
SetWriteInPlace(w, fault) ==
  /\ wpc[w] = "wtmp"
  /\ ~fault
  /\ LET f == GenKeyFilename(wkey[w]) IN
       fs' = [fs EXCEPT ![f] = File(<<>>), ![TempName(f)] = File(wcontent[w])]
  /\ wpc' = [wpc EXCEPT ![w] = "wtmpmeta"]
  /\ SetFrame(w)
  /\ UNCHANGED <<dirExists, flocks, wchanged, last, wret>>

\* 126-129: os.WriteFile(tempFilename, content)
SetWriteTemp(w, fault) ==
  /\ wpc[w] = "wtmp"
  /\ WriteFile(w, TempName(GenKeyFilename(wkey[w])), wcontent[w], "wtmpmeta", "wtmp", fault)
  /\ SetFrame(w)
  /\ UNCHANGED <<dirExists, flocks, wchanged, last>>

\* A Set that stamps the metadata with the time of the write.
SetWriteTempMetaNow(w, fault) ==
  /\ wpc[w] = "wtmpmeta"
  /\ LET f == GenKeyFilename(wkey[w])
         metadata == [key |-> wkey[w], filename |-> f, set |-> now,
                      expire |-> now + wduration[w]]
     IN WriteFile(w, TempName(MetadataName(f)), Marshal(metadata), "rendata", "wtmpmeta", fault)
  /\ SetFrame(w)
  /\ UNCHANGED <<dirExists, flocks, wchanged, last>>

\* 99-104, 120, 131-134: os.WriteFile(tempMetadataFilename, metadataContent)
SetWriteTempMeta(w, fault) ==
  /\ wpc[w] = "wtmpmeta"
  /\ LET f == GenKeyFilename(wkey[w])
         metadata == [key |-> wkey[w], filename |-> f, set |-> wbefore[w],
                      expire |-> wbefore[w] + wduration[w]]
     IN WriteFile(w, TempName(MetadataName(f)), Marshal(metadata), "rendata", "wtmpmeta", fault)
  /\ SetFrame(w)
  /\ UNCHANGED <<dirExists, flocks, wchanged, last>>

\* os.Rename(from, to): fails when from is missing, or on a fault
Rename(w, from, to, next, okname, errname, fault) ==
  /\ fault => fs[from] # NoFile
  /\ IF fault \/ fs[from] = NoFile
     THEN /\ wpc' = [wpc EXCEPT ![w] = "ret"]
          /\ wret' = [wret EXCEPT ![w] = errname]
          /\ UNCHANGED <<fs, flocks>>
     ELSE /\ fs' = [fs EXCEPT ![to] = fs[from], ![from] = NoFile]
          /\ flocks' = Relinked(flocks, to)
          /\ wpc' = [wpc EXCEPT ![w] = next]
          /\ wret' = [wret EXCEPT ![w] = okname]

\* A Set that leaves the payload in the temporary file.
SetRenameDataSkipped(w, fault) ==
  /\ wpc[w] = "rendata"
  /\ ~fault
  /\ wpc' = [wpc EXCEPT ![w] = "renmeta"]
  /\ SetFrame(w)
  /\ UNCHANGED <<dirExists, fs, flocks, wchanged, last, wret>>

\* 137-139: os.Rename(tempFilename, filename)
SetRenameData(w, fault) ==
  /\ wpc[w] = "rendata"
  /\ LET f == GenKeyFilename(wkey[w]) IN
       /\ Rename(w, TempName(f), f, "renmeta", "", "rendata", fault)
       /\ wchanged' = [wchanged EXCEPT ![w] = wchanged[w] \/ fs'[f] # fs[f]]
  /\ SetFrame(w)
  /\ UNCHANGED <<dirExists, last>>

\* 141-145: os.Rename(tempMetadataFilename, metadataFilename); return nil
SetRenameMeta(w, fault) ==
  /\ wpc[w] = "renmeta"
  /\ LET f == GenKeyFilename(wkey[w])
         m == MetadataName(f)
     IN /\ Rename(w, TempName(m), m, "ret", "ok", "renmeta", fault)
        /\ wchanged' = [wchanged EXCEPT ![w] = wchanged[w] \/ fs'[m] # fs[m]]
        /\ last' = IF wret'[w] = "ok"
                   THEN [last EXCEPT ![wkey[w]] =
                           [@ EXCEPT !.done = TRUE, !.content = wcontent[w],
                                     !.expire = wbefore[w] + wduration[w]]]
                   ELSE last
  /\ SetFrame(w)
  /\ UNCHANGED dirExists

\* A Set that unlocks at the end of its success path only.
SetReturnLeak(w) ==
  /\ wpc[w] = "ret"
  /\ flocks' = IF wret[w] = "ok" THEN {l \in flocks : l.who # SetWho(w)} ELSE flocks
  /\ wpc' = [wpc EXCEPT ![w] = "idle"]
  /\ wkey' = [wkey EXCEPT ![w] = <<>>]
  /\ wcontent' = [wcontent EXCEPT ![w] = <<>>]
  /\ wbefore' = [wbefore EXCEPT ![w] = 0]
  /\ wduration' = [wduration EXCEPT ![w] = 0]
  /\ wret' = [wret EXCEPT ![w] = ""]
  /\ wchanged' = [wchanged EXCEPT ![w] = FALSE]
  /\ iso' = IF iso.st = "set" /\ iso.w = w /\ wret[w] = "ok"
            THEN [iso EXCEPT !.st = "setdone"] ELSE NoIso
  /\ UNCHANGED <<now, faults, dirExists, fs, gvars, svars, gstart, gsets, last, slocked, sdue, swept>>

\* return: the deferred lock.Unlock() (118) runs when the lock was taken
SetReturn(w) ==
  /\ wpc[w] = "ret"
  /\ flocks' = {l \in flocks : l.who # SetWho(w)}
  /\ wpc' = [wpc EXCEPT ![w] = "idle"]
  /\ wkey' = [wkey EXCEPT ![w] = <<>>]
  /\ wcontent' = [wcontent EXCEPT ![w] = <<>>]
  /\ wbefore' = [wbefore EXCEPT ![w] = 0]
  /\ wduration' = [wduration EXCEPT ![w] = 0]
  /\ wret' = [wret EXCEPT ![w] = ""]
  /\ wchanged' = [wchanged EXCEPT ![w] = FALSE]
  /\ iso' = IF iso.st = "set" /\ iso.w = w /\ wret[w] = "ok"
            THEN [iso EXCEPT !.st = "setdone"] ELSE NoIso
  /\ UNCHANGED <<now, faults, dirExists, fs, gvars, svars, gstart, gsets, last, slocked, sdue, swept>>

----
\* Get, part_001:55-73.

\* 56-60: filename := c.GenKeyFilename(key)
GetStart(key) ==
  /\ gpc = "idle"
  /\ gpc' = "stat"
  /\ gkey' = key
  /\ gstart' = fs[GenKeyFilename(key)]
  /\ gsets' = {wcontent[w] : w \in {v \in Writers : WriterActive(v) /\ wkey[v] = key}}
  /\ iso' = IF iso.st = "setdone" /\ iso.key = key
            THEN [iso EXCEPT !.st = "get"] ELSE NoIso
  /\ UNCHANGED <<now, dirExists, fs, flocks, wvars, gret, svars,
                 wchanged, last, slocked, sdue, swept>>

\* A Get that opens the file as flock does, creating it when it is missing.
GetStatCreating ==
  /\ gpc = "stat"
  /\ gpc' = "read"
  /\ fs' = [fs EXCEPT ![GenKeyFilename(gkey)] = IF @ = NoFile THEN File(<<>>) ELSE @]
  /\ iso' = IsoGet
  /\ UNCHANGED <<now, dirExists, flocks, wvars, gkey, gret, svars,
                 wchanged, gstart, gsets, last, slocked, sdue, swept>>

\* 62-65: os.Stat(filename); os.IsNotExist(err)
GetStat ==
  /\ gpc = "stat"
  /\ IF fs[GenKeyFilename(gkey)] = NoFile
     THEN /\ gpc' = "ret"
          /\ gret' = [err |-> "does not exist", data |-> <<>>]
     ELSE /\ gpc' = "read"
          /\ UNCHANGED gret
  /\ iso' = IsoGet
  /\ UNCHANGED <<now, dirExists, fs, flocks, wvars, gkey, svars,
                 wchanged, gstart, gsets, last, slocked, sdue, swept>>

\* A Get that reads under the lock of Set, and gives up when it is held.
GetReadLocked ==
  /\ gpc = "read"
  /\ gpc' = "ret"
  /\ gret' = IF LockedElsewhere(GenKeyFilename(gkey))
             THEN [err |-> "could not acquire lock", data |-> <<>>]
             ELSE IF fs[GenKeyFilename(gkey)] = NoFile
             THEN [err |-> "error reading", data |-> <<>>]
             ELSE [err |-> "", data |-> Content(fs[GenKeyFilename(gkey)])]
  /\ iso' = IsoGet
  /\ UNCHANGED <<now, dirExists, fs, flocks, wvars, gkey, svars,
                 wchanged, gstart, gsets, last, slocked, sdue, swept>>

\* A Get that reads the temporary file of the key.
GetReadTemp ==
  /\ gpc = "read"
  /\ gpc' = "ret"
  /\ gret' = IF fs[TempName(GenKeyFilename(gkey))] = NoFile
             THEN [err |-> "error reading", data |-> <<>>]
             ELSE [err |-> "", data |-> Content(fs[TempName(GenKeyFilename(gkey))])]
  /\ iso' = IsoGet
  /\ UNCHANGED <<now, dirExists, fs, flocks, wvars, gkey, svars,
                 wchanged, gstart, gsets, last, slocked, sdue, swept>>

\* 67-72: os.ReadFile(filename)
GetRead ==
  /\ gpc = "read"
  /\ gpc' = "ret"
  /\ gret' = IF fs[GenKeyFilename(gkey)] = NoFile
             THEN [err |-> "error reading", data |-> <<>>]
             ELSE [err |-> "", data |-> Content(fs[GenKeyFilename(gkey)])]
  /\ iso' = IsoGet
  /\ UNCHANGED <<now, dirExists, fs, flocks, wvars, gkey, svars,
                 wchanged, gstart, gsets, last, slocked, sdue, swept>>

GetReturn ==
  /\ gpc = "ret"
  /\ gpc' = "idle"
  /\ gkey' = <<>>
  /\ gret' = NoResult
  /\ gstart' = NoFile
  /\ gsets' = {}
  /\ iso' = NoIso
  /\ UNCHANGED <<now, dirExists, fs, flocks, wvars, svars,
                 wchanged, last, slocked, sdue, swept>>

----
\* The clock.
Tick ==
  /\ now < MaxTime
  /\ now' = now + 1
  /\ UNCHANGED <<dvars, rvars, tvars, kvars>>

----
\* The sweeper: cleanupExpiredCacheFiles / cleanup, part_001:150-232.

IsMetadataName(name) == name.ext[Len(name.ext)] = "-metadata.json"

\* os.ReadDir lists the directory sorted by file name; of the names listed the
\* loop keeps those ending in "-metadata.json" (173).  The order of the names
\* of two keys is that of their prefixes and digests: it is fixed, here by
\* the length of the key.
RECURSIVE Sorted(_)
Sorted(ks) ==
  IF ks = {} THEN <<>>
  ELSE LET k == CHOOSE x \in ks : \A y \in ks : Len(x) <= Len(y)
       IN <<MetadataName(GenKeyFilename(k))>> \o Sorted(ks \ {k})
ReadDir ==
  Sorted({k \in Keys : \E name \in KeyPaths(k) : IsMetadataName(name) /\ fs[name] # NoFile})

\* The keys whose entry, stored by the last Set on the key, has expired.
Due ==
  {k \in Keys : /\ last[k].done
                /\ now > last[k].expire
                /\ \A w \in Writers : ~(WriterActive(w) /\ wkey[w] = k)}

\* cleanup returns: the tick is complete.
\* The tick of sweeper s has done event to the entry of the file name; the
\* record of a tick ends with the tick.
Logged(s, name, event) ==
  sorder' = [sorder EXCEPT ![s] =
               IF spc'[s] = "idle" THEN NoOrder
               ELSE [@ EXCEPT ![KeyOfName(name)] = Append(@, event)]]

Completed(s) == swept' = swept \cup sdue[s] /\ sdue' = [sdue EXCEPT ![s] = {}]

\* A sweeper whose task ends when it cannot read the cache directory.
SweepStartExit(s, fault) ==
  /\ spc[s] = "idle"
  /\ fault => dirExists
  /\ LET files == IF fault \/ ~dirExists THEN <<>> ELSE ReadDir IN
       /\ sfiles' = [sfiles EXCEPT ![s] = files]
       /\ IF files = <<>>
          THEN /\ spc' = IF fault \/ ~dirExists THEN [spc EXCEPT ![s] = "exit"] ELSE spc
               /\ swept' = swept \cup (IF fault \/ ~dirExists THEN {} ELSE Due)
               /\ UNCHANGED sdue
          ELSE /\ spc' = [spc EXCEPT ![s] = "readmeta"]
               /\ sdue' = [sdue EXCEPT ![s] = Due]
               /\ UNCHANGED swept
  /\ sskipped' = [sskipped EXCEPT ![s] = {}]
  /\ sorder' = [sorder EXCEPT ![s] =
                  [k \in Keys |-> IF \E i \in 1..Len(sfiles'[s]) : KeyOfName(sfiles'[s][i]) = k
                                  THEN <<"listed">> ELSE <<>>]]
  /\ iso' = NoIso
  /\ UNCHANGED <<now, dirExists, fs, flocks, wvars, gvars, smeta, sdefer,
                 wchanged, gstart, gsets, last, slocked>>

\* 156-170: a tick of the ticker; os.ReadDir(c.cacheDir)
SweepStart(s, fault) ==
  /\ spc[s] = "idle"
  /\ fault => dirExists
  /\ LET files == IF fault \/ ~dirExists THEN <<>> ELSE ReadDir IN
       /\ sfiles' = [sfiles EXCEPT ![s] = files]
       /\ IF files = <<>>
          THEN /\ UNCHANGED spc
               /\ swept' = swept \cup (IF fault \/ ~dirExists THEN {} ELSE Due)
               /\ UNCHANGED sdue
          ELSE /\ spc' = [spc EXCEPT ![s] = "readmeta"]
               /\ sdue' = [sdue EXCEPT ![s] = Due]
               /\ UNCHANGED swept
  /\ sskipped' = [sskipped EXCEPT ![s] = {}]
  /\ sorder' = [sorder EXCEPT ![s] =
                  [k \in Keys |-> IF \E i \in 1..Len(sfiles'[s]) : KeyOfName(sfiles'[s][i]) = k
                                  THEN <<"listed">> ELSE <<>>]]
  /\ iso' = NoIso
  /\ UNCHANGED <<now, dirExists, fs, flocks, wvars, gvars, smeta, sdefer,
                 wchanged, gstart, gsets, last, slocked>>

\* continue, or the end of the loop body: the next file, or the deferred
\* unlocks (209-217) when none is left, or the return.
Continue(s) ==
  /\ sfiles' = [sfiles EXCEPT ![s] = Tail(sfiles[s])]
  /\ smeta' = [smeta EXCEPT ![s] = NoMeta]
  /\ slocked' = [slocked EXCEPT ![s] = FALSE]
  /\ IF Len(sfiles[s]) > 1
     THEN spc' = [spc EXCEPT ![s] = "readmeta"] /\ UNCHANGED <<sdue, swept>>
     ELSE IF sdefer'[s] # <<>>
     THEN spc' = [spc EXCEPT ![s] = "unlock"] /\ UNCHANGED <<sdue, swept>>
     ELSE spc' = [spc EXCEPT ![s] = "idle"] /\ Completed(s)

\* A sweeper that reclaims every entry whose metadata it can read and parse.
SweepReadMetaAll(s, fault) ==
  /\ spc[s] = "readmeta"
  /\ fault => fs[Head(sfiles[s])] # NoFile
  /\ LET file == fs[Head(sfiles[s])]
         parsed == Unmarshal(Content(file))
     IN IF fault \/ file = NoFile \/ ~parsed.ok
        THEN /\ UNCHANGED <<sdefer, slocked>>
             /\ sskipped' = IF ~fault /\ file # NoFile /\ ~parsed.ok
                            THEN [sskipped EXCEPT ![s] = @ \cup {Head(sfiles[s])}]
                            ELSE sskipped
             /\ Continue(s)
        ELSE /\ smeta' = [smeta EXCEPT ![s] = parsed.md]
             /\ spc' = [spc EXCEPT ![s] = "lock"]
             /\ slocked' = [slocked EXCEPT ![s] =
                              \E w \in Writers : Holds(SetWho(w), parsed.md.filename)]
             /\ UNCHANGED <<sfiles, sdefer, sdue, swept, sskipped>>
  /\ Logged(s, Head(sfiles[s]), "read")
  /\ iso' = NoIso
  /\ UNCHANGED <<now, dirExists, fs, flocks, wvars, gvars,
                 wchanged, gstart, gsets, last>>

\* A sweeper that returns from the tick at a metadata file it cannot read or parse.
SweepReadMetaReturn(s, fault) ==
  /\ spc[s] = "readmeta"
  /\ fault => fs[Head(sfiles[s])] # NoFile
  /\ LET file == fs[Head(sfiles[s])]
         parsed == Unmarshal(Content(file))
     IN IF fault \/ file = NoFile \/ ~parsed.ok
        THEN /\ UNCHANGED <<sdefer, slocked, smeta>>
             /\ sskipped' = IF ~fault /\ file # NoFile /\ ~parsed.ok
                            THEN [sskipped EXCEPT ![s] = @ \cup {Head(sfiles[s])}]
                            ELSE sskipped
             /\ sfiles' = [sfiles EXCEPT ![s] = <<>>]
             /\ IF sdefer[s] # <<>>
                THEN spc' = [spc EXCEPT ![s] = "unlock"] /\ UNCHANGED <<sdue, swept>>
                ELSE spc' = [spc EXCEPT ![s] = "idle"] /\ Completed(s)
        ELSE IF ~(now > parsed.md.expire)
        THEN /\ UNCHANGED <<sdefer, slocked, sskipped>>
             /\ Continue(s)
        ELSE /\ smeta' = [smeta EXCEPT ![s] = parsed.md]
             /\ spc' = [spc EXCEPT ![s] = "lock"]
             /\ slocked' = [slocked EXCEPT ![s] =
                              \E w \in Writers : Holds(SetWho(w), parsed.md.filename)]
             /\ UNCHANGED <<sfiles, sdefer, sdue, swept, sskipped>>
  /\ Logged(s, Head(sfiles[s]), "read")
  /\ iso' = NoIso
  /\ UNCHANGED <<now, dirExists, fs, flocks, wvars, gvars,
                 wchanged, gstart, gsets, last>>

\* A sweeper that removes a metadata file it cannot parse.
SweepReadMetaPurge(s, fault) ==
  /\ spc[s] = "readmeta"
  /\ fault => fs[Head(sfiles[s])] # NoFile
  /\ LET file == fs[Head(sfiles[s])]
         parsed == Unmarshal(Content(file))
     IN IF fault \/ file = NoFile \/ ~parsed.ok \/ ~(now > parsed.md.expire)
        THEN /\ UNCHANGED <<sdefer, slocked>>
             /\ sskipped' = IF ~fault /\ file # NoFile /\ ~parsed.ok
                            THEN [sskipped EXCEPT ![s] = @ \cup {Head(sfiles[s])}]
                            ELSE sskipped
             /\ fs' = IF ~fault /\ file # NoFile /\ ~parsed.ok
                      THEN [fs EXCEPT ![Head(sfiles[s])] = NoFile]
                      ELSE fs
             /\ Continue(s)
        ELSE /\ smeta' = [smeta EXCEPT ![s] = parsed.md]
             /\ spc' = [spc EXCEPT ![s] = "lock"]
             /\ slocked' = [slocked EXCEPT ![s] =
                              \E w \in Writers : Holds(SetWho(w), parsed.md.filename)]
             /\ UNCHANGED <<fs, sfiles, sdefer, sdue, swept, sskipped>>
  /\ Logged(s, Head(sfiles[s]), "read")
  /\ iso' = NoIso
  /\ UNCHANGED <<now, dirExists, flocks, wvars, gvars,
                 wchanged, gstart, gsets, last>>

\* 175-191: os.ReadFile(metadataFilename); json.Unmarshal; time.Now().After(metadata.Expire)
SweepReadMeta(s, fault) ==
  /\ spc[s] = "readmeta"
  /\ fault => fs[Head(sfiles[s])] # NoFile
  /\ LET file == fs[Head(sfiles[s])]
         parsed == Unmarshal(Content(file))
     IN IF fault \/ file = NoFile \/ ~parsed.ok \/ ~(now > parsed.md.expire)
        THEN /\ UNCHANGED <<sdefer, slocked>>
             /\ sskipped' = IF ~fault /\ file # NoFile /\ ~parsed.ok
                            THEN [sskipped EXCEPT ![s] = @ \cup {Head(sfiles[s])}]
                            ELSE sskipped
             /\ Continue(s)
        ELSE /\ smeta' = [smeta EXCEPT ![s] = parsed.md]
             /\ spc' = [spc EXCEPT ![s] = "lock"]
             /\ slocked' = [slocked EXCEPT ![s] =
                              \E w \in Writers : Holds(SetWho(w), parsed.md.filename)]
             /\ UNCHANGED <<sfiles, sdefer, sdue, swept, sskipped>>
  /\ Logged(s, Head(sfiles[s]), "read")
  /\ iso' = NoIso
  /\ UNCHANGED <<now, dirExists, fs, flocks, wvars, gvars,
                 wchanged, gstart, gsets, last>>

\* A sweeper that goes from its lock to the removal of the metadata file.
SweepTryLockThenMeta(s, fault) ==
  /\ spc[s] = "lock"
  /\ LET lockFile == LockName(smeta[s].filename) IN
       IF fault \/ LockedElsewhere(lockFile)
       THEN /\ UNCHANGED <<fs, flocks, sdefer>>
            /\ Continue(s)
       ELSE /\ fs' = [fs EXCEPT ![lockFile] = IF @ = NoFile THEN File(<<>>) ELSE @]
            /\ flocks' = flocks \cup {[who |-> CleanupWho(s), path |-> lockFile, cur |-> TRUE]}
            /\ sdefer' = [sdefer EXCEPT ![s] = Append(@, lockFile)]
            /\ spc' = [spc EXCEPT ![s] = "rmmeta"]
            /\ UNCHANGED <<sfiles, smeta, slocked, sdue, swept>>
  /\ Logged(s, Head(sfiles[s]),
            IF spc'[s] = "rmmeta" THEN "lock" ELSE IF fault THEN "lockerr" ELSE "held")
  /\ sheld' = IF ~fault /\ LockedElsewhere(LockName(smeta[s].filename))
              THEN sheld \cup {KeyOfName(Head(sfiles[s]))} ELSE sheld
  /\ iso' = NoIso
  /\ UNCHANGED <<now, dirExists, wvars, gvars, wchanged, gstart, gsets, last>>

\* 193-217: flock.New(cacheFile + ".lock").TryLock(); defer the unlock
SweepTryLock(s, fault) ==
  /\ spc[s] = "lock"
  /\ LET lockFile == LockName(smeta[s].filename) IN
       IF fault \/ LockedElsewhere(lockFile)
       THEN /\ UNCHANGED <<fs, flocks, sdefer>>
            /\ Continue(s)
       ELSE /\ fs' = [fs EXCEPT ![lockFile] = IF @ = NoFile THEN File(<<>>) ELSE @]
            /\ flocks' = flocks \cup {[who |-> CleanupWho(s), path |-> lockFile, cur |-> TRUE]}
            /\ sdefer' = [sdefer EXCEPT ![s] = Append(@, lockFile)]
            /\ spc' = [spc EXCEPT ![s] = "rmdata"]
            /\ UNCHANGED <<sfiles, smeta, slocked, sdue, swept>>
  /\ Logged(s, Head(sfiles[s]),
            IF spc'[s] = "rmdata" THEN "lock" ELSE IF fault THEN "lockerr" ELSE "held")
  /\ sheld' = IF ~fault /\ LockedElsewhere(LockName(smeta[s].filename))
              THEN sheld \cup {KeyOfName(Head(sfiles[s]))} ELSE sheld
  /\ iso' = NoIso
  /\ UNCHANGED <<now, dirExists, wvars, gvars, wchanged, gstart, gsets, last>>

\* os.Remove(name): fails when name is missing, or on a fault
Remove(name, fault) ==
  /\ fault => fs[name] # NoFile
  /\ IF fault \/ fs[name] = NoFile
     THEN UNCHANGED <<fs, flocks>>
     ELSE /\ fs' = [fs EXCEPT ![name] = NoFile]
          /\ flocks' = Relinked(flocks, name)

\* 222-224: os.Remove(cacheFile)
SweepRemoveData(s, fault) ==
  /\ spc[s] = "rmdata"
  /\ Remove(smeta[s].filename, fault)
  /\ spc' = [spc EXCEPT ![s] = "rmmeta"]
  /\ Logged(s, Head(sfiles[s]), "rmdata")
  /\ last' = IF fs' # fs THEN Reclaimed(last, KeyOfName(smeta[s].filename)) ELSE last
  /\ iso' = NoIso
  /\ UNCHANGED <<now, dirExists, wvars, gvars, sfiles, smeta, sdefer,
                 wchanged, gstart, gsets, slocked, sdue, swept>>

\* 225-227: os.Remove(metadataFilename)
SweepRemoveMeta(s, fault) ==
  /\ spc[s] = "rmmeta"
  /\ Remove(Head(sfiles[s]), fault)
  /\ UNCHANGED sdefer
  /\ Continue(s)
  /\ Logged(s, Head(sfiles[s]), "rmmeta")
  /\ last' = IF fs' # fs THEN Reclaimed(last, KeyOfName(Head(sfiles[s]))) ELSE last
  /\ iso' = NoIso
  /\ UNCHANGED <<now, dirExists, wvars, gvars, wchanged, gstart, gsets>>

\* 209-211: a deferred function starts, last deferred first: cacheLock.Unlock()
SweepUnlock(s) ==
  /\ spc[s] = "unlock"
  /\ LET lockFile == sdefer[s][Len(sdefer[s])] IN
       flocks' = {l \in flocks : ~(l.who = CleanupWho(s) /\ l.path = lockFile)}
  /\ spc' = [spc EXCEPT ![s] = "rmlock"]
  /\ Logged(s, sdefer[s][Len(sdefer[s])], "unlock")
  /\ iso' = NoIso
  /\ UNCHANGED <<now, dirExists, fs, wvars, gvars, sfiles, smeta, sdefer,
                 wchanged, gstart, gsets, last, slocked, sdue, swept>>

\* 212-216: os.Remove(lockFile); then the next deferred function, or the return
SweepRemoveLock(s) ==
  /\ spc[s] = "rmlock"
  /\ Remove(sdefer[s][Len(sdefer[s])], FALSE)
  /\ sdefer' = [sdefer EXCEPT ![s] = SubSeq(@, 1, Len(@) - 1)]
  /\ IF Len(sdefer[s]) > 1
     THEN spc' = [spc EXCEPT ![s] = "unlock"] /\ UNCHANGED <<sdue, swept>>
     ELSE spc' = [spc EXCEPT ![s] = "idle"] /\ Completed(s)
  /\ Logged(s, sdefer[s][Len(sdefer[s])], "rmlock")
  /\ iso' = NoIso
  /\ UNCHANGED <<now, dirExists, wvars, gvars, sfiles, smeta,
                 wchanged, gstart, gsets, last, slocked>>

----
\* The Redis cache, package redis of disk.go:74-118. A call is one command to
\* the server.

\* A Get that reads the key as given.
RedisGetNoPrefix(key) ==
  /\ rret' = IF Live(rstore[key])
             THEN [op |-> "Get", key |-> key, at |-> now, err |-> "", data |-> rstore[key][1]]
             ELSE [op |-> "Get", key |-> key, at |-> now, err |-> "redis: nil", data |-> <<>>]
  /\ UNCHANGED <<now, dvars, rstore, rset, tvars, kvars>>

\* 104-110: c.client.Get(prefix + key).Bytes()
RedisGet(key) ==
  /\ rret' = IF Live(rstore[prefix \o key])
             THEN [op |-> "Get", key |-> key, at |-> now, err |-> "",
                   data |-> rstore[prefix \o key][1]]
             ELSE [op |-> "Get", key |-> key, at |-> now, err |-> "redis: nil", data |-> <<>>]
  /\ UNCHANGED <<now, dvars, rstore, rset, tvars, kvars>>

\* A Set that stores the entry with no expiration.
RedisSetNoExpiry(key, content, duration) ==
  /\ rstore' = [rstore EXCEPT ![prefix \o key] = Entry(content, now, 0)]
  /\ rret' = [op |-> "Set", key |-> key, at |-> now, err |-> "", data |-> <<>>]
  /\ rset' = [rset EXCEPT ![key] = Entry(content, now, duration)]
  /\ UNCHANGED <<now, dvars, tvars, kvars>>

\* 112-118: c.client.Set(prefix+key, content, duration).Err()
RedisSet(key, content, duration) ==
  /\ rstore' = [rstore EXCEPT ![prefix \o key] = Entry(content, now, duration)]
  /\ rret' = [op |-> "Set", key |-> key, at |-> now, err |-> "", data |-> <<>>]
  /\ rset' = [rset EXCEPT ![key] = Entry(content, now, duration)]
  /\ UNCHANGED <<now, dvars, tvars, kvars>>

----
\* The environment damages the metadata file of key k: the file is left with
\* no content, which json.Unmarshal rejects (182-186).
Corrupt(k) ==
  /\ faults < MaxFaults
  /\ faults' = faults + 1
  /\ LET name == MetadataName(GenKeyFilename(k)) IN
       /\ fs[name] # NoFile
       /\ Unmarshal(Content(fs[name])).ok
       /\ fs' = [fs EXCEPT ![name] = File(<<>>)]
  /\ iso' = NoIso
  /\ UNCHANGED <<now, dirExists, flocks, wvars, gvars, svars,
                 wchanged, gstart, gsets, last, slocked, sdue, sskipped, sorder, sheld, swept, rvars, tvars, kvars>>

----
\* The steps of the calls in progress.
SetStep(w, fault) ==
  /\ Faulty(fault)
  /\ \/ ~fault /\ SetStatDir(w)
     \/ SetMkdir(w, fault)
     \/ SetTryLock(w, fault)
     \/ SetWriteTemp(w, fault)
     \/ SetWriteTempMeta(w, fault)
     \/ SetRenameData(w, fault)
     \/ SetRenameMeta(w, fault)
     \/ ~fault /\ SetReturn(w)
  /\ UNCHANGED <<sskipped, sorder, sheld, rvars, tvars, kvars>>

SetCall(w, keys) ==
  \E key \in keys, content \in Payloads, duration \in Durations :
    SetStart(w, key, content, duration) /\ UNCHANGED <<sskipped, sorder, sheld, rvars, tvars, kvars>>

GetStep == (GetStat \/ GetRead \/ GetReturn) /\ UNCHANGED <<faults, sskipped, sorder, sheld, rvars, tvars, kvars>>

GetCall(keys) == \E key \in keys : GetStart(key) /\ UNCHANGED <<faults, sskipped, sorder, sheld, rvars, tvars, kvars>>

SweepWork(s, fault) ==
  /\ Faulty(fault)
  /\ \/ SweepStart(s, fault) /\ UNCHANGED sheld
     \/ SweepReadMeta(s, fault) /\ UNCHANGED sheld
     \/ SweepTryLock(s, fault) /\ UNCHANGED sskipped
     \/ SweepRemoveData(s, fault) /\ UNCHANGED <<sskipped, sheld>>
     \/ SweepRemoveMeta(s, fault) /\ UNCHANGED <<sskipped, sheld>>
     \/ ~fault /\ SweepUnlock(s) /\ UNCHANGED <<sskipped, sheld>>
     \/ ~fault /\ SweepRemoveLock(s) /\ UNCHANGED <<sskipped, sheld>>
  /\ UNCHANGED <<rvars, kvars>>

\* A step of the sweeper where the ticks of its ticker are left out: a tick
\* may start whenever the sweeper waits for one.
SweepStep(s, fault) == SweepWork(s, fault) /\ UNCHANGED tvars

\* A ticker with no room for a tick: a tick that elapses during a sweep is lost.
TickerFireUnbuffered(s) ==
  /\ tfired[s] < MaxTicks
  /\ ~(spc[s] = "idle" /\ tickerC[s] = 1)
  /\ tfired' = [tfired EXCEPT ![s] = @ + 1]
  /\ tickerC' = [tickerC EXCEPT ![s] = IF spc[s] = "idle" THEN 1 ELSE @]
  /\ UNCHANGED <<now, dvars, rvars, kvars, tstarted>>

\* The ticker of cleanupExpiredCacheFiles (151).  Its channel holds one tick:
\* when an interval elapses the ticker sends a tick unless the channel is
\* full, and the tick is dropped if it is.  A loop that waits at its select
\* receives a tick well within the interval.
TickerFire(s) ==
  /\ tfired[s] < MaxTicks
  /\ ~(spc[s] = "idle" /\ tickerC[s] = 1)
  /\ tfired' = [tfired EXCEPT ![s] = @ + 1]
  /\ tickerC' = [tickerC EXCEPT ![s] = 1]
  /\ UNCHANGED <<now, dvars, rvars, kvars, tstarted>>

\* case <-ticker.C: c.cleanup() (155-157): the loop takes the tick that waits
\* in the channel and calls cleanup.
TickerReceive(s, fault) ==
  /\ spc[s] = "idle"
  /\ tickerC[s] = 1
  /\ tickerC' = [tickerC EXCEPT ![s] = 0]
  /\ tstarted' = [tstarted EXCEPT ![s] = @ + 1]
  /\ SweepWork(s, fault)
  /\ UNCHANGED tfired

\* The steps of the cleanup call in progress: the loop is not at its select.
SweepRun(s, fault) == spc[s] # "idle" /\ SweepStep(s, fault)

\* GenKeyFilename (40-44) on any string, and the paths Set (107, 126, 131)
\* and cleanup (197) build from the path it returns.
GenKeyFilenameCall(input) ==
  /\ kinput' = input
  /\ kpath' = GenKeyFilename(input)
  /\ UNCHANGED <<now, dvars, rvars, tvars>>

DerivedPath ==
  /\ kpath = GenKeyFilename(kinput)
  /\ \E path \in {MetadataName(kpath), TempName(kpath), TempName(MetadataName(kpath)),
                    LockName(kpath)} :
       kpath' = path
  /\ UNCHANGED <<now, dvars, rvars, tvars, kinput>>

\* Every actor, on a file system whose calls may fail.  The specifications
\* below allow a part of these steps each: their behaviours are behaviours
\* of Spec.
Next ==
  \/ \E w \in Writers : SetCall(w, Keys)
  \/ \E w \in Writers, fault \in BOOLEAN : SetStep(w, fault)
  \/ GetCall(Keys)
  \/ GetStep
  \/ \E s \in Sweepers, fault \in BOOLEAN : SweepStep(s, fault)
  \/ Tick

Spec == Init /\ [][Next]_vars

OneWriter == {w \in Writers : w = 1}
TwoWriters == {w \in Writers : w <= 2}
OneSweeper == {s \in Sweepers : s = 1}
\* Two replicas of the program on one cache directory: two sweepers.
TwoSweepers == {s \in Sweepers : s <= 2}
OneKey == {k \in Keys : k = Key(1)}

\* Two callers of Set and a caller of Get on one key; no tick of the sweeper
\* falls in the behaviour.
NextCalls ==
  \/ \E w \in TwoWriters : SetCall(w, OneKey)
  \/ \E w \in TwoWriters, fault \in BOOLEAN : SetStep(w, fault)
  \/ GetCall(OneKey)
  \/ GetStep

SpecCalls == Init /\ [][NextCalls]_vars

\* One caller of Set, one Set after the other, and a caller of Get.
NextGetSet ==
  \/ \E w \in OneWriter : SetCall(w, OneKey)
  \/ \E w \in OneWriter, fault \in BOOLEAN : SetStep(w, fault)
  \/ GetCall(OneKey)
  \/ GetStep

SpecGetSet == Init /\ [][NextGetSet]_vars

\* Two callers of Set.
NextTwoSets ==
  \/ \E w \in TwoWriters : SetCall(w, OneKey)
  \/ \E w \in TwoWriters, fault \in BOOLEAN : SetStep(w, fault)

SpecTwoSets == Init /\ [][NextTwoSets]_vars

\* Two callers of Set, each on a key of its own.
NextOtherKeys ==
  \/ \E w \in TwoWriters, content \in Payloads, duration \in Durations :
       /\ Key(w) \in Keys
       /\ SetStart(w, Key(w), content, duration)
       /\ UNCHANGED <<sskipped, sorder, sheld, rvars, tvars, kvars>>
  \/ \E w \in TwoWriters, fault \in BOOLEAN : SetStep(w, fault)

SpecOtherKeys == Init /\ [][NextOtherKeys]_vars

\* One caller of Set and the sweeper, as time passes, on a file system whose
\* calls fail only for the state of the files.
NextSweep ==
  \/ \E w \in OneWriter : SetCall(w, OneKey)
  \/ \E w \in OneWriter : SetStep(w, FALSE)
  \/ \E s \in OneSweeper : SweepStep(s, FALSE)
  \/ Tick

SpecSweep == Init /\ [][NextSweep]_vars

\* One caller of Set, a caller of Get and the sweeper, as time passes between
\* the calls of Set and Get.
NextOne ==
  \/ \E w \in OneWriter : SetCall(w, OneKey)
  \/ \E w \in OneWriter, fault \in BOOLEAN : SetStep(w, fault)
  \/ GetCall(OneKey)
  \/ GetStep
  \/ \E s \in OneSweeper, fault \in BOOLEAN : SweepStep(s, fault)
  \/ gpc = "idle" /\ (\A w \in Writers : ~WriterActive(w)) /\ Tick

SpecOne == Init /\ [][NextOne]_vars

\* One caller of Set, a caller of Get and the sweeper, as time passes, on a
\* file system whose calls fail only for the state of the files.
NextReads ==
  \/ \E w \in OneWriter : SetCall(w, OneKey)
  \/ \E w \in OneWriter : SetStep(w, FALSE)
  \/ GetCall(OneKey)
  \/ GetStep
  \/ \E s \in OneSweeper : SweepStep(s, FALSE)
  \/ Tick

SpecReads == Init /\ [][NextReads]_vars

\* One caller of Set, which sets the keys that have no data file to entries
\* that expire as soon as time passes, and the sweeper on every key, while the
\* environment damages the metadata file of one key and a caller of Get reads
\* that key once its metadata file is damaged.
NextCorrupt ==
  \/ \E w \in OneWriter, key \in Keys, content \in Payloads :
       /\ fs[GenKeyFilename(key)] = NoFile
       /\ SetStart(w, key, content, 0)
       /\ UNCHANGED <<sskipped, sorder, sheld, rvars, tvars, kvars>>
  \/ \E w \in OneWriter : SetStep(w, FALSE)
  \/ \E key \in OneKey :
       /\ fs[MetadataName(GenKeyFilename(key))] = File(<<>>)
       /\ GetStart(key)
       /\ UNCHANGED <<faults, sskipped, sorder, sheld, rvars, tvars, kvars>>
  \/ GetStep
  \/ \E s \in OneSweeper : SweepStep(s, FALSE)
  \/ \E k \in OneKey : Corrupt(k)
  \/ Tick

SpecCorrupt == Init /\ [][NextCorrupt]_vars

\* Two callers of Set on one key. Every call passes the content that names
\* its duration, so that the data file tells which call wrote it.
ContentOf(duration) == <<duration + 1>>
NextAgree ==
  \/ \E w \in TwoWriters, key \in OneKey, duration \in Durations :
       /\ ContentOf(duration) \in Payloads
       /\ SetStart(w, key, ContentOf(duration), duration)
       /\ UNCHANGED <<sskipped, sorder, sheld, rvars, tvars, kvars>>
  \/ \E w \in TwoWriters, fault \in BOOLEAN : SetStep(w, fault)

SpecAgree == Init /\ [][NextAgree]_vars

\* One caller of Set, which sets the keys that have no data file to entries
\* that expire as soon as time passes, and the sweeper on every key, as time
\* passes, while file system calls of the sweeper fail and the environment
\* damages the metadata file of one key.
NextSweepKeys ==
  \/ \E w \in OneWriter, key \in Keys, content \in Payloads :
       /\ fs[GenKeyFilename(key)] = NoFile
       /\ SetStart(w, key, content, 0)
       /\ UNCHANGED <<sskipped, sorder, sheld, rvars, tvars, kvars>>
  \/ \E w \in OneWriter : SetStep(w, FALSE)
  \/ \E s \in OneSweeper, fault \in BOOLEAN : SweepStep(s, fault)
  \/ \E k \in OneKey : Corrupt(k)
  \/ Tick

SpecSweepKeys == Init /\ [][NextSweepKeys]_vars

\* One caller of Set, which sets a key that has no data file to an entry that
\* expires as soon as time passes, and one sweeper, on a file system whose calls
\* may fail and whose metadata files may be damaged, as time passes.
NextSweepLoop ==
  \/ \E w \in OneWriter, key \in OneKey, content \in Payloads :
       /\ fs[GenKeyFilename(key)] = NoFile
       /\ SetStart(w, key, content, 0)
       /\ UNCHANGED <<sskipped, sorder, sheld, rvars, tvars, kvars>>
  \/ \E w \in OneWriter : SetStep(w, FALSE)
  \/ \E s \in OneSweeper, fault \in BOOLEAN : SweepStep(s, fault)
  \/ \E k \in OneKey : Corrupt(k)
  \/ Tick

SpecSweepLoop == Init /\ [][NextSweepLoop]_vars

\* The loop of cleanupExpiredCacheFiles (150-160) keeps receiving ticks, and a
\* tick in progress keeps taking steps.
SpecSweepLoopFair ==
  SpecSweepLoop /\ \A s \in OneSweeper : WF_vars(SweepStep(s, FALSE))

\* One caller of Set, which sets a key that has no data file to an entry that
\* expires as soon as time passes, and one sweeper whose ticks come from its
\* ticker, as time passes.
NextTicker ==
  \/ \E w \in OneWriter, key \in OneKey, content \in Payloads :
       /\ fs[GenKeyFilename(key)] = NoFile
       /\ SetStart(w, key, content, 0)
       /\ UNCHANGED <<sskipped, sorder, sheld, rvars, tvars, kvars>>
  \/ \E w \in OneWriter : SetStep(w, FALSE)
  \/ \E s \in OneSweeper : TickerFire(s)
  \/ \E s \in OneSweeper, fault \in BOOLEAN : TickerReceive(s, fault)
  \/ \E s \in OneSweeper, fault \in BOOLEAN : SweepRun(s, fault)
  \/ Tick

SpecTicker == Init /\ [][NextTicker]_vars

\* One caller of Set, which sets a key that has no data file to an entry that
\* expires as soon as time passes, and the sweepers of two replicas, as time
\* passes.
NextTwoSweepers ==
  \/ \E w \in OneWriter, key \in OneKey, content \in Payloads :
       /\ fs[GenKeyFilename(key)] = NoFile
       /\ SetStart(w, key, content, 0)
       /\ UNCHANGED <<sskipped, sorder, sheld, rvars, tvars, kvars>>
  \/ \E w \in OneWriter : SetStep(w, FALSE)
  \/ \E s \in TwoSweepers, fault \in BOOLEAN : SweepStep(s, fault)
  \/ Tick

SpecTwoSweepers == Init /\ [][NextTwoSweepers]_vars

\* The loop of cleanupExpiredCacheFiles (150-160) keeps receiving ticks, and a
\* tick in progress keeps taking steps.
SpecTwoSweepersFair ==
  SpecTwoSweepers /\ \A s \in TwoSweepers : WF_vars(SweepStep(s, FALSE))

\* The callers of the Redis cache, as time passes.
NextRedis ==
  \/ \E key \in Keys, content \in Payloads, duration \in Durations :
       RedisSet(key, content, duration)
  \/ \E key \in Keys : RedisGet(key)
  \/ Tick

SpecRedis == Init /\ [][NextRedis]_vars

\* One caller of Set and a caller of Get, on every key, on a file system
\* whose calls fail only for the state of the files.
NextKeys ==
  \/ \E w \in OneWriter : SetCall(w, Keys)
  \/ \E w \in OneWriter : SetStep(w, FALSE)
  \/ GetCall(Keys)
  \/ GetStep

SpecKeys == Init /\ [][NextKeys]_vars

\* The file names of every key string.
NextNames ==
  \/ \E input \in KeyStrings : GenKeyFilenameCall(input)
  \/ DerivedPath

SpecNames == Init /\ [][NextNames]_vars

----
\* The claims about Set and Get on one key.

DataFile(k) == fs[GenKeyFilename(k)]
\* A Get has its result and has not yet returned it to the caller.
GetResult == gpc = "ret"
\* The Get in progress started on a data file holding a complete payload.
GetOnPayload == gstart # NoFile /\ Content(gstart) \in Payloads
\* No Set call on key k is in progress.
SetsReturned(k) == \A w \in Writers : ~(WriterActive(w) /\ wkey[w] = k)

\* C1: a Get that follows a Set of payload p on the same key which returned
\* without error, no other step of a Set, a Get or the sweeper falling between
\* the start of the Set and the result of the Get, returns without error
\* exactly p: the same bytes, of the same length.
C1_RoundTrip ==
  (iso.st = "get" /\ GetResult) =>
    /\ gret.err = ""
    /\ gret.data = iso.content
    /\ Len(gret.data) = Len(iso.content)
\* The Get after the Set has its result.
C1_Witness ==
  /\ iso.st = "get" /\ GetResult
  /\ iso.content \in Payloads
  /\ gret.data = iso.content

\* C2: a Get on a key whose data file holds a complete payload p1 when the
\* Get starts, running while Set calls on the key are in progress, returns
\* without error exactly p1 or exactly the payload of one of those Set calls.
C2_Atomicity ==
  (GetResult /\ GetOnPayload) =>
    /\ gret.err = ""
    /\ gret.data = Content(gstart) \/ gret.data \in gsets
\* The Get returned the payload of a Set that ran beside it.
C2_Witness ==
  /\ GetResult /\ GetOnPayload
  /\ gret.err = ""
  /\ gret.data # Content(gstart)
  /\ gret.data \in gsets

\* C3: a Get that starts on a key with no data file, while Set calls on the
\* key run beside it, returns not-found or exactly the payload of one of the
\* Set calls.
C3_FirstWrite ==
  (GetResult /\ gstart = NoFile /\ gsets # {}) =>
    \/ gret.err # ""
    \/ gret.data \in gsets

\* C4: no two Set calls on one key hold the lock of the key at a time.
C4_LockExclusive ==
  \A w1, w2 \in Writers :
    (w1 # w2 /\ WriterActive(w1) /\ WriterActive(w2) /\ wkey[w1] = wkey[w2]) =>
      ~(/\ Holds(SetWho(w1), GenKeyFilename(wkey[w1]))
        /\ Holds(SetWho(w2), GenKeyFilename(wkey[w2])))

\* C5: a Set call that returns an error has changed neither the data file nor
\* the metadata file of its key.
C5_FailedSetNoChange ==
  \A w \in Writers : (wpc[w] = "ret" /\ wret[w] # "ok") => ~wchanged[w]

\* C9: when the Set calls on a key have all returned, and no sweeper removed
\* a file of the key, the data file holds the payload of the Set call that
\* completed its two renames last.
C9_LastWriterWins ==
  \A k \in Keys :
    (SetsReturned(k) /\ last[k].done /\ ~last[k].removed) =>
      DataFile(k) = File(last[k].content)

\* C6: a Set call that finds the lock of its key held elsewhere tries the
\* lock once: its next step is the return of an error, it writes no file and
\* takes no lock, before the return and in it.
C6_LockHeldElsewhere ==
  [][\A w \in Writers :
       /\ (/\ wpc[w] = "lock"
           /\ LockedElsewhere(GenKeyFilename(wkey[w]))
           /\ wpc'[w] # wpc[w]) =>
            /\ wpc'[w] = "ret"
            /\ wret'[w] \in {"locked", "lockerr"}
            /\ fs' = fs /\ flocks' = flocks
       /\ (/\ wpc[w] = "ret"
           /\ wret[w] = "locked"
           /\ wpc'[w] # wpc[w]) =>
            /\ wpc'[w] = "idle"
            /\ ~wchanged[w]
            /\ fs' = fs /\ flocks' = flocks]_vars
\* A Set call is about to return that the lock could not be acquired.
C6_Witness ==
  \E w \in Writers :
    /\ wpc[w] = "ret" /\ wret[w] = "locked"
    /\ \E v \in Writers \ {w} : Holds(SetWho(v), GenKeyFilename(wkey[w]))

\* C10: a Get finishes with an error and no bytes when the data file of its
\* key does not exist; on a data file that exists it finishes only by reading
\* the file, without error and with the whole content the file has at the read.
C10_GetResult ==
  [][(gpc # "ret" /\ gpc' = "ret") =>
       IF DataFile(gkey) = NoFile
       THEN gret'.err # "" /\ gret'.data = <<>>
       ELSE /\ gpc = "read"
            /\ gret' = [err |-> "", data |-> Content(DataFile(gkey))]]_vars
\* A Get has read the payload in the data file of its key.
C10_Witness ==
  /\ GetResult
  /\ gret.err = ""
  /\ gret.data \in Payloads
  /\ DataFile(gkey) = File(gret.data)

\* C15: a Set that has returned holds no lock, on its success path and on
\* every failure path, so that with one caller of Set at a time no Set finds
\* the lock held: a Set is never refused for a lock an earlier Set kept.
C15_LockReleased ==
  /\ \A w \in Writers : wpc[w] = "idle" => ~\E l \in flocks : l.who = SetWho(w)
  /\ \A w \in OneWriter : wret[w] # "locked"
\* A Set has acquired the lock on a data file that an earlier Set created when
\* it locked, and left empty when a file system call failed under the lock.
C15_Witness ==
  \E w \in OneWriter :
    /\ wpc[w] = "wtmp"
    /\ faults = MaxFaults
    /\ ~wchanged[w]
    /\ DataFile(wkey[w]) = File(<<>>)
    /\ \E l \in flocks : l.who = SetWho(w) /\ l.cur

\* C17: when a Set that ran with no other operation on its key is about to
\* return success, the metadata file of the key parses and records the key,
\* the path of the data file, the time taken at the start of the call as the
\* set time, and that time plus the duration as the expiry.
C17_MetadataRecord ==
  \A w \in Writers :
    (iso.st = "set" /\ iso.w = w /\ wpc[w] = "ret" /\ wret[w] = "ok") =>
      LET f == GenKeyFilename(wkey[w]) IN
        /\ fs[MetadataName(f)] # NoFile
        /\ Unmarshal(Content(fs[MetadataName(f)])) =
             [ok |-> TRUE,
              md |-> [key |-> wkey[w], filename |-> f, set |-> wbefore[w],
                      expire |-> wbefore[w] + wduration[w]]]
\* Such a Set, with a duration above zero, is about to return success after
\* time has passed since its start.
C17_Witness ==
  \E w \in Writers :
    /\ iso.st = "set" /\ iso.w = w /\ wpc[w] = "ret" /\ wret[w] = "ok"
    /\ wduration[w] > 0
    /\ now > wbefore[w]

\* C29: a step of a Set call that changes a file is taken under the lock of
\* the call; it changes the data file or the metadata file only by renaming
\* the temporary file of that name over it; and it renames the metadata file
\* only after the data file.
C29_SetStepOrder ==
  [][\A w \in Writers :
       (wpc'[w] # wpc[w] /\ wpc[w] # "idle" /\ fs' # fs) =>
         LET f == GenKeyFilename(wkey[w]) IN
           /\ Holds(SetWho(w), f)
           /\ \A name \in {f, MetadataName(f)} :
                fs'[name] # fs[name] =>
                  /\ fs[TempName(name)] # NoFile
                  /\ fs'[name] = fs[TempName(name)]
                  /\ fs'[TempName(name)] = NoFile
           /\ fs'[MetadataName(f)] # fs[MetadataName(f)] => wpc[w] = "renmeta"]_vars

\* C30: whenever no Set call holds the lock of a key and the data file and the
\* metadata file of the key both exist, the metadata file parses and its set
\* and expire times are those of the call that wrote the data file: the
\* content of the data file is the one passed with that duration.
C30_DataMetaAgree ==
  \A k \in Keys :
    (/\ ~\E w \in Writers : Holds(SetWho(w), GenKeyFilename(k))
     /\ DataFile(k) # NoFile
     /\ fs[MetadataName(GenKeyFilename(k))] # NoFile) =>
       LET parsed == Unmarshal(Content(fs[MetadataName(GenKeyFilename(k))])) IN
         /\ parsed.ok
         /\ Content(DataFile(k)) = ContentOf(parsed.md.expire - parsed.md.set)

\* C11: a step of Get changes no file of the cache directory (data,
\* metadata, temporary, lock), creates none, and takes or drops no lock.
C11_GetMutatesNothing ==
  [][gpc' # gpc => (fs' = fs /\ flocks' = flocks /\ dirExists' = dirExists)]_vars
\* A Get has its result while the data file, a temporary file and a lock file
\* of its key are in the cache directory.
C11_Witness ==
  /\ GetResult
  /\ DataFile(gkey) # NoFile
  /\ fs[TempName(GenKeyFilename(gkey))] # NoFile
  /\ fs[LockName(GenKeyFilename(gkey))] # NoFile

\* C12: Get takes no lock: a Get in progress can always take its next step,
\* whatever locks are held, no lock is ever held by a Get, and a Get never
\* returns that a lock could not be acquired.
C12_ReadsNotBlocked ==
  /\ gpc # "idle" => ENABLED GetStep
  /\ \A l \in flocks : l.who[1] \in {"Set", "cleanup"}
  /\ gret.err \in {"", "does not exist", "error reading"}
\* A Get has found the data file and is about to read it while a Set holds
\* its lock on the data file and the sweeper holds its lock on the lock file
\* of the entry.
C12_Witness ==
  /\ gpc = "read"
  /\ \E l \in flocks : l.who[1] = "Set" /\ l.cur /\ l.path = GenKeyFilename(gkey)
  /\ \E l \in flocks : l.who[1] = "cleanup" /\ l.path = LockName(GenKeyFilename(gkey))

----
\* The claims about the sweeper.

\* C7: an entry that no sweeper removed is returned as it was stored for as
\* long as no Set call is in progress on its key; and once the entry has
\* expired and a tick of the sweeper that started after that is complete,
\* the key has no data file.
C7_Expiration ==
  \A k \in Keys :
    /\ (SetsReturned(k) /\ last[k].done /\ ~last[k].removed) =>
         (DataFile(k) # NoFile => DataFile(k) = File(last[k].content))
    /\ k \in swept => DataFile(k) = NoFile

\* C8: a sweeper that finds an entry expired while a Set call holds the lock
\* of the key removes neither file of the entry in that tick.
C8_SweeperSkipsLocked ==
  [][\A s \in Sweepers :
       (/\ slocked[s]
        /\ spc[s] \in {"rmdata", "rmmeta"}
        /\ spc'[s] # spc[s]) => fs' = fs]_vars

\* C20: whenever the sweeper removes the data file or the metadata file of an
\* entry, the metadata file stored for the entry at that moment parses and has
\* its expiry strictly before the current time.
C20_SweeperRemovesExpiredOnly ==
  [][\A s \in Sweepers :
       (/\ spc[s] \in {"rmdata", "rmmeta"}
        /\ spc'[s] # spc[s]
        /\ fs' # fs) =>
          /\ fs[Head(sfiles[s])] # NoFile
          /\ Unmarshal(Content(fs[Head(sfiles[s])])).ok
          /\ now > Unmarshal(Content(fs[Head(sfiles[s])])).md.expire]_vars

\* The metadata file name does not parse as metadata.
Unparsable(name) == fs[name] # NoFile /\ ~Unmarshal(Content(fs[name])).ok

\* C16: a step of the sweeper changes neither a metadata file that its tick
\* has skipped as unparsable nor the data file paired with it; the step that
\* finds a metadata file unparsable goes on to the next metadata file of the
\* listing; and a Get that reads the data file of a key whose metadata file
\* is unparsable returns the contents of the data file.
C16_CorruptMetadata ==
  [][/\ \A s \in Sweepers :
          <<spc[s], sfiles[s], sdefer[s]>>' # <<spc[s], sfiles[s], sdefer[s]>> =>
            /\ \A name \in sskipped'[s] :
                 /\ fs'[name] = fs[name]
                 /\ DataFile(KeyOfName(name))' = DataFile(KeyOfName(name))
            /\ (spc[s] = "readmeta" /\ Unparsable(Head(sfiles[s]))) =>
                 /\ sfiles'[s] = Tail(sfiles[s])
                 /\ Len(sfiles[s]) > 1 => spc'[s] = "readmeta"
     /\ (/\ gpc = "read" /\ gpc' = "ret"
         /\ Unparsable(MetadataName(GenKeyFilename(gkey)))
         /\ DataFile(gkey) # NoFile) =>
           gret' = [err |-> "", data |-> Content(DataFile(gkey))]]_vars
\* In one tick the sweeper has skipped an unparsable metadata file and gone
\* on to an expired entry, both files of the skipped entry are in place, and
\* a Get of the skipped key has returned the payload.
C16_Witness ==
  \E s \in Sweepers : \E name \in sskipped[s] :
    /\ spc[s] \in {"lock", "rmdata", "rmmeta"}
    /\ Unparsable(name)
    /\ DataFile(KeyOfName(name)) # NoFile
    /\ GetResult
    /\ gkey = KeyOfName(name)
    /\ gret.err = ""
    /\ gret.data \in Payloads

\* C21: while a sweeper holds its lock for the entry of a key, no Set on that
\* key acquires its lock.
C21_SweeperExcludesSet ==
  [][\A w \in Writers :
       (wpc[w] = "lock" /\ wpc'[w] = "wtmp") =>
         ~\E l \in flocks : /\ l.who[1] = "cleanup"
                             /\ l.path = LockName(GenKeyFilename(wkey[w]))]_vars

\* C23: a sweeper holds the lock of at most one entry at a time, and holds
\* none when it reads the next metadata file of its listing.
C23_OneLockAtATime ==
  \A s \in Sweepers :
    /\ Cardinality({l \in flocks : l.who = CleanupWho(s)}) <= 1
    /\ spc[s] = "readmeta" => ~\E l \in flocks : l.who = CleanupWho(s)

\* What a tick does, in order, to an entry that it reclaims.
Reclaim == <<"listed", "read", "lock", "rmdata", "rmmeta", "unlock", "rmlock">>
IsPrefix(p, q) == Len(p) <= Len(q) /\ p = SubSeq(q, 1, Len(p))
Done(s, k, event) == \E i \in 1..Len(sorder[s][k]) : sorder[s][k][i] = event
\* This step is a step of sweeper s.
SweeperSteps(s) == <<spc[s], sfiles[s], sdefer[s]>>' # <<spc[s], sfiles[s], sdefer[s]>>

\* C22: what a tick does to an entry follows the order lock, delete of the
\* data file, delete of the metadata file, unlock, removal of the lock file,
\* or stops short of the lock. A step of the sweeper removes a data file or a
\* metadata file only under its lock on the entry, removes the metadata file
\* only after the delete of the data file was attempted, drops a lock only
\* after both deletes were attempted, and removes a lock file only after the
\* unlock.
C22_ReclaimOrder ==
  /\ [](\A s \in Sweepers, k \in Keys :
          \/ IsPrefix(sorder[s][k], Reclaim)
          \/ sorder[s][k] \in {<<"listed", "read", "lockerr">>, <<"listed", "read", "held">>})
  /\ [][\A s \in Sweepers, k \in Keys :
          SweeperSteps(s) =>
            LET f == GenKeyFilename(k)
                held == Holds(CleanupWho(s), LockName(f))
            IN /\ (fs[f] # NoFile /\ fs'[f] = NoFile) => held
               /\ (fs[MetadataName(f)] # NoFile /\ fs'[MetadataName(f)] = NoFile) =>
                    (held /\ Done(s, k, "rmdata"))
               /\ (held /\ ~Holds(CleanupWho(s), LockName(f))') =>
                    (Done(s, k, "rmdata") /\ Done(s, k, "rmmeta"))
               /\ (fs[LockName(f)] # NoFile /\ fs'[LockName(f)] = NoFile) =>
                    (~held /\ Done(s, k, "unlock"))]_vars
\* A tick has taken an entry through every step of the order while its lock
\* on another entry is still to be released.
C22_Witness ==
  \E s \in Sweepers, k \in Keys :
    /\ sorder[s][k] = Reclaim
    /\ \E l \in flocks : l.who = CleanupWho(s)

\* The metadata file name holds metadata that has expired.
Expired(name) ==
  /\ fs[name] # NoFile
  /\ Unmarshal(Content(fs[name])).ok
  /\ now > Unmarshal(Content(fs[name])).md.expire

\* C24: a tick in progress has examined every entry of its listing or still
\* has it to examine, and leaves its loop at the last file of the listing
\* only, whatever failed on the entries before; a step that reads expired
\* metadata without a failure goes on to the lock, a step that finds the lock
\* free and takes it without a failure goes on to the deletes, and the delete
\* of the metadata file follows the delete of the data file, failed or not.
C24_ErrorIsolation ==
  /\ [](\A s \in Sweepers, k \in Keys :
          (spc[s] # "idle" /\ sorder[s][k] # <<>>) =>
            \/ Done(s, k, "read")
            \/ \E i \in 1..Len(sfiles[s]) : KeyOfName(sfiles[s][i]) = k)
  /\ [][\A s \in Sweepers :
          SweeperSteps(s) =>
            /\ (spc[s] \in {"readmeta", "lock", "rmmeta"} /\ spc'[s] \in {"unlock", "idle"}) =>
                 Len(sfiles[s]) = 1
            /\ spc[s] \in {"readmeta", "lock", "rmdata", "rmmeta"} =>
                 sfiles'[s] \in {sfiles[s], Tail(sfiles[s])}
            /\ (spc[s] = "readmeta" /\ faults' = faults /\ Expired(Head(sfiles[s]))) =>
                 spc'[s] = "lock"
            /\ (/\ spc[s] = "lock" /\ faults' = faults
                /\ ~LockedElsewhere(LockName(smeta[s].filename))) =>
                 (spc'[s] = "rmdata" /\ Holds(CleanupWho(s), LockName(smeta[s].filename))')
            /\ spc[s] = "rmdata" => spc'[s] = "rmmeta"]_vars
\* In one tick, after a failure, the sweeper has left an entry whose metadata
\* file is unparsable or expired, and has deleted the files of another.
C24_Witness ==
  \E s \in Sweepers, k1, k2 \in Keys :
    /\ k1 # k2
    /\ faults = MaxFaults
    /\ sorder[s][k1] \in {<<"listed", "read">>, <<"listed", "read", "lockerr">>}
    /\ LET name == MetadataName(GenKeyFilename(k1)) IN Unparsable(name) \/ Expired(name)
    /\ Done(s, k1, "read") /\ Done(s, k2, "rmmeta")

\* C26: two sweepers never hold their locks for the same entry at the same
\* time.
C26_SweepersExclusive ==
  \A s1, s2 \in Sweepers : \A k \in Keys :
    s1 # s2 =>
      ~(/\ Holds(CleanupWho(s1), LockName(GenKeyFilename(k)))
        /\ Holds(CleanupWho(s2), LockName(GenKeyFilename(k))))

\* C25: an expired entry that a tick has skipped because its lock was held
\* eventually has its data file and its metadata file both removed, unless a
\* Set on the key runs.
C25_DeferredReclaim ==
  \A k \in Keys :
    (k \in sheld /\ Expired(MetadataName(GenKeyFilename(k)))) ~>
      \/ /\ DataFile(k) = NoFile
         /\ fs[MetadataName(GenKeyFilename(k))] = NoFile
      \/ \E w \in Writers : WriterActive(w) /\ wkey[w] = k

\* C28: the task of a sweeper is always waiting for a tick or inside one, and
\* can always take a step: it starts a tick when it waits, whatever the
\* ticks before came to; and every tick it starts returns to waiting.
C28_SweeperNeverStops ==
  /\ [](\A s \in Sweepers :
          /\ spc[s] \in {"idle", "readmeta", "lock", "rmdata", "rmmeta", "unlock", "rmlock"}
          /\ ENABLED SweepStep(s, FALSE))
  /\ \A s \in Sweepers : []<>(spc[s] = "idle")
\* After a file system call failed, with the cache directory and every
\* metadata file readable again, the sweeper has started another tick.
C28_Witness ==
  \E s \in Sweepers :
    /\ spc[s] = "readmeta"
    /\ faults = MaxFaults
    /\ \A k \in Keys : sorder[s][k] \in {<<>>, <<"listed">>}
    /\ \A k \in Keys : ~Unparsable(MetadataName(GenKeyFilename(k)))

\* C27: a tick starts only when the sweeper waits for one, and no tick of
\* the ticker is skipped: every interval that has elapsed has started a sweep
\* or waits in the channel to start one.
C27_NoTickSkipped ==
  /\ [](\A s \in Sweepers : tfired[s] = tstarted[s] + tickerC[s])
  /\ [][\A s \in Sweepers : tstarted'[s] # tstarted[s] => spc[s] = "idle"]_vars
\* C27, for the ticker of the code: a tick starts only when the sweeper waits
\* for one and takes the tick out of the channel; a tick that elapses while
\* none waits is kept until the sweep in progress has completed; and a tick
\* is lost only when it elapses while another waits.
C27_TicksDelayed ==
  /\ [](\A s \in Sweepers :
          /\ tickerC[s] \in 0..1
          /\ tfired[s] >= tstarted[s] + tickerC[s])
  /\ [][\A s \in Sweepers :
          /\ tstarted'[s] # tstarted[s] =>
                /\ spc[s] = "idle"
                /\ tstarted'[s] = tstarted[s] + 1
                /\ tickerC[s] = 1 /\ tickerC'[s] = 0
          /\ tickerC'[s] < tickerC[s] => tstarted'[s] = tstarted[s] + 1
          /\ (tfired'[s] # tfired[s] /\ tickerC[s] = 0) => tickerC'[s] = 1
        ]_vars
\* A sweep that a tick started is in progress, a tick waits in the channel
\* and a later tick has been lost.
C27_Witness ==
  \E s \in Sweepers :
    /\ spc[s] # "idle"
    /\ tstarted[s] = 1
    /\ tickerC[s] = 1
    /\ tfired[s] = 3

\* C31: whenever no Set on a key and no tick of a sweeper is in progress, the
\* data file of the key exists if and only if its metadata file exists.
C31_Pairing ==
  \A k \in Keys :
    (SetsReturned(k) /\ \A s \in Sweepers : spc[s] = "idle") =>
      (DataFile(k) # NoFile <=> fs[MetadataName(GenKeyFilename(k))] # NoFile)

\* C33: a Set that finds the cache directory missing creates it, also when
\* another Set has created it in the meantime, and goes on to take its lock;
\* with no failing call, every Set on a key of its own returns success with
\* the directory, its data file and its metadata file in place.
C33_RootCreated ==
  /\ [](\A w \in Writers :
          (wpc[w] = "ret" /\ faults = 0) =>
            /\ wret[w] = "ok"
            /\ dirExists
            /\ DataFile(wkey[w]) = File(wcontent[w])
            /\ fs[MetadataName(GenKeyFilename(wkey[w]))] # NoFile)
  /\ [][\A w \in Writers :
          (wpc[w] = "mkdir" /\ wpc'[w] # "mkdir" /\ faults' = faults) =>
            (dirExists' /\ wpc'[w] = "lock")]_vars
\* Two Sets on different keys found the directory missing; one has created
\* it and returns success, the other has yet to create it.
C33_Witness ==
  \E w1, w2 \in Writers :
    /\ wpc[w1] = "ret" /\ wret[w1] = "ok"
    /\ wpc[w2] = "mkdir"
    /\ wkey[w1] # wkey[w2]
    /\ faults = 0

\* C34: a step of a Set on key k changes no data, metadata, temporary or
\* lock file of any other key and no lock held on one; and a Set on a key no
\* other Set in progress is on never finds its lock held.
C34_KeyIndependence ==
  /\ [](\A w \in Writers : wret[w] # "locked")
  /\ [][\A w \in Writers :
          wpc'[w] # wpc[w] =>
            LET k == IF wpc[w] = "idle" THEN wkey'[w] ELSE wkey[w] IN
              \A path \in Paths \ KeyPaths(k) :
                /\ fs'[path] = fs[path]
                /\ {l \in flocks' : l.path = path} = {l \in flocks : l.path = path}]_vars
\* Two Sets on different keys hold their locks at the same time, one about to
\* write and one about to rename its data file.
C34_Witness ==
  \E w1, w2 \in Writers :
    /\ wkey[w1] # wkey[w2]
    /\ wpc[w1] = "wtmp" /\ wpc[w2] = "rendata"
    /\ \A w \in {w1, w2} :
         \E l \in flocks : l.who = SetWho(w) /\ l.path = GenKeyFilename(wkey[w]) /\ l.cur

\* The data file, the metadata file and the temporary files of key k.
EntryPaths(k) ==
  LET f == GenKeyFilename(k) IN {f, MetadataName(f), TempName(f), TempName(MetadataName(f))}

\* C35: a step of a sweeper changes a file only to create the lock file of the
\* entry it is at, or to remove the data file named in the metadata it read,
\* the metadata file it read or a lock file it locked in this tick; it is at
\* the lock or the removals of an entry only when the metadata it read in this
\* tick had expired; and it changes no data, metadata or temporary file of an
\* entry its tick has not locked: one it found unexpired, unparsable or
\* unreadable, or has yet to read.
C35_SweepFrame ==
  [][\A s \in Sweepers :
       SweeperSteps(s) =>
         /\ \A path \in Paths :
              fs'[path] # fs[path] =>
                \/ /\ spc[s] = "lock"
                   /\ path = LockName(smeta[s].filename)
                   /\ fs[path] = NoFile
                \/ /\ fs'[path] = NoFile
                   /\ \/ spc[s] = "rmdata" /\ path = smeta[s].filename
                      \/ spc[s] = "rmmeta" /\ path = Head(sfiles[s])
                      \/ /\ spc[s] = "rmlock"
                         /\ path = sdefer[s][Len(sdefer[s])]
                         /\ Done(s, KeyOfName(path), "lock")
         /\ spc[s] \in {"lock", "rmdata", "rmmeta"} =>
              /\ Done(s, KeyOfName(Head(sfiles[s])), "read")
              /\ now > smeta[s].expire
              /\ MetadataName(smeta[s].filename) = Head(sfiles[s])
         /\ \A k \in Keys :
              ~Done(s, k, "lock") => \A path \in EntryPaths(k) : fs'[path] = fs[path]]_vars
\* A tick has read the metadata of an entry that has not expired and left it
\* with its data file, and has removed both files of an expired entry.
C35_Witness ==
  \E s \in Sweepers, k1, k2 \in Keys :
    /\ sorder[s][k1] = <<"listed", "read">>
    /\ sfiles[s] = <<>> \/ Head(sfiles[s]) # MetadataName(GenKeyFilename(k1))
    /\ fs[MetadataName(GenKeyFilename(k1))] # NoFile
    /\ ~Unparsable(MetadataName(GenKeyFilename(k1)))
    /\ ~Expired(MetadataName(GenKeyFilename(k1)))
    /\ DataFile(k1) # NoFile
    /\ Done(s, k2, "rmmeta")
    /\ DataFile(k2) = NoFile
    /\ fs[MetadataName(GenKeyFilename(k2))] = NoFile

\* C36: when a Set is about to return, with success or with the error of any
\* step, the temporary data file and the temporary metadata file it wrote
\* are no longer in the cache directory.
C36_NoTempLeft ==
  \A w \in Writers :
    wpc[w] = "ret" =>
      LET f == GenKeyFilename(wkey[w]) IN
        /\ wret[w] \in {"ok", "wtmpmeta", "rendata", "renmeta"} =>
             fs[TempName(f)] = NoFile
        /\ wret[w] \in {"ok", "rendata", "renmeta"} =>
             fs[TempName(MetadataName(f))] = NoFile

----
\* The claims about the Redis cache.

\* This step is a Get of the Redis cache.
RedisGetReturns == rret' # rret /\ rret'.op = "Get"
RedisNotFound == "redis: nil"

\* C18: the server holds what Set was given under the prefix followed by the
\* key, and nothing under any other name; a Get of a key never set returns the
\* not-found error, and a Get of a key before the expiration of its last Set
\* returns the content of that Set.
C18_RedisRoundTrip ==
  /\ [](\A k \in Keys : rstore[prefix \o k] = rset[k] /\ rstore[k] = NoEntry)
  /\ [][RedisGetReturns =>
          LET e == rset[rret'.key] IN
            /\ e = NoEntry => (rret'.err = RedisNotFound /\ rret'.data = <<>>)
            /\ (e # NoEntry /\ now < e[2] + e[3]) =>
                 (rret'.err = "" /\ rret'.data = e[1])]_vars
\* A Get has returned the content of a Set before its expiration, while the
\* other keys were never set.
C18_Witness ==
  /\ rret.op = "Get" /\ rret.err = "" /\ rret.data \in Payloads
  /\ rret.at < rset[rret.key][2] + rset[rret.key][3]
  /\ \A k \in Keys \ {rret.key} : rset[k] = NoEntry

----
\* The claims about the file names.

HasSeparator(input) == \E i \in 1..Len(input) : input[i] = "~"
\* The files and locks of the cache directory.
NamesInUse == {name \in Paths : fs[name] # NoFile} \cup {l.path : l \in flocks}

\* GenKeyFilename on every string: the directory, the prefix, the digest of
\* the whole string, ".json".
PrefixDerived ==
  \A input \in KeyStrings :
    LET path == GenKeyFilename(input) IN
      /\ path.dir = cacheDir
      /\ path.hex = [sha256 |-> input]
      /\ path.ext = <<".json">>
      /\ IF HasSeparator(input)
         THEN \E n \in 0..(Len(input) - 1) :
                /\ input[n + 1] = "~"
                /\ \A j \in 1..n : input[j] # "~"
                /\ path.prefix = SubSeq(input, 1, n) \o <<"-">>
         ELSE path.prefix = <<>>
\* Two strings never share a data path or a metadata path.
PathsDiffer ==
  \A k1, k2 \in KeyStrings :
    k1 # k2 =>
      /\ GenKeyFilename(k1) # GenKeyFilename(k2)
      /\ MetadataName(GenKeyFilename(k1)) # MetadataName(GenKeyFilename(k2))
      /\ GenKeyFilename(k1) # MetadataName(GenKeyFilename(k2))

\* C32: for every key string, GenKeyFilename returns the path of a file
\* directly in the cache directory: its file name is one path component, also
\* for a key whose part before '~' is empty or holds a path separator.
C32_SingleComponent == InDir(kpath, cacheDir)

\* C13: for a key with a '~', GenKeyFilename returns <cacheDir>/<P>-<hex>.json
\* where P is the part of the key before its first '~' and hex the digest of
\* the whole key; for a key with no '~' it returns <cacheDir>/<hex>.json.
\* Every file and lock of the cache directory is named so after its key.
C13_PrefixDerivation ==
  /\ PrefixDerived
  /\ \A name \in NamesInUse :
       \E k \in Keys :
         /\ name.dir = cacheDir
         /\ name.hex = [sha256 |-> k]
         /\ name.prefix = IF HasSeparator(k) THEN <<"a", "-">> ELSE <<>>
\* The data file of the key "a~" is a-<hex>.json and that of "a" is <hex>.json.
C13_Witness ==
  /\ fs[[dir |-> cacheDir, prefix |-> <<"a", "-">>, hex |-> [sha256 |-> <<"a", "~">>],
         ext |-> <<".json">>]] # NoFile
  /\ fs[[dir |-> cacheDir, prefix |-> <<>>, hex |-> [sha256 |-> <<"a">>],
         ext |-> <<".json">>]] # NoFile

\* C14: two different keys have different data paths and different metadata
\* paths (the digest being injective), and the step of a call that computes
\* the path of its key touches no file and no lock.
C14_Filenames ==
  /\ []PathsDiffer
  /\ [][(\/ gpc = "idle" /\ gpc' # "idle"
         \/ \E w \in Writers : wpc[w] = "idle" /\ wpc'[w] # "idle") =>
          (fs' = fs /\ flocks' = flocks /\ dirExists' = dirExists)]_vars
\* The entries of two keys are in the cache directory, each in its own files.
C14_Witness ==
  \A k \in Keys :
    /\ fs[GenKeyFilename(k)] \in {File(p) : p \in Payloads}
    /\ fs[MetadataName(GenKeyFilename(k))] # NoFile

====
